---------------------------- MODULE Spec2Model ----------------------------
(***************************************************************************)
(* A model of getinspire (restrepo/getinspire): the key classifier and     *)
(* the INSPIRE fetch of inspire.py, the citation extractors and the        *)
(* eprint-to-texkey rewrite of getinspire.py, and the run of               *)
(* getinspire_main.                                                        *)
(*                                                                         *)
(* Text is a sequence of one-character strings, so that the regular        *)
(* expressions of the source are matched character by character.           *)
(***************************************************************************)
EXTENDS Naturals, Integers, Sequences, FiniteSets, TLC

VARIABLES
    \* ---- inspire.py: Key -------------------------------------------------
    key,            \* the key string handed to Key.format / Inspire.fetch
    kres,           \* the last value returned by a Key classmethod
    \* ---- inspire.py: Inspire.fetch and InspireHTMLParser -----------------
    python3,        \* sys.version_info.major == 3
    fpc,            \* position inside Inspire.fetch
    response,       \* s: the page read from urlopen
    page,           \* the part of the response not yet fed to the parser
    div_depth,      \* InspireHTMLParser.div_depth
    div_pagebody,   \* InspireHTMLParser.div_pagebody (None or a depth)
    pre_list,       \* InspireHTMLParser.pre_list
    pre_content,    \* InspireHTMLParser.pre_content (None or text)
    requests,       \* the queries handed to urlopen, in order
    outcome,        \* how Inspire.fetch ended: an exception or a return
    \* ---- getinspire.py: TeX and Cite ------------------------------------
    doc,            \* the document as written: its invocations and the text
                    \* between them (what the file was put together from)
    text,           \* TeX.text: the text of the document
    refs,           \* the keys of the table TeX.references() returned
    cite_texkey,    \* Cite.texkey: the keys of the dict
    cite_list,      \* Cite.list
    cite_calls,     \* how often Cite.ExtractTexkeys has run on the object
    \* ---- getinspire.py: getinspire_main ---------------------------------
    mpc,            \* position inside getinspire_main
    thebibliography,\* options -t / -a
    appendbli,      \* option -a
    bbltoinspire,   \* option -b
    latexformat,    \* 'EU', or 'US' with --LaTeXUS
    latexfile,      \* the LaTeX file on disk (None when it does not exist)
    latex_writes,   \* how often the LaTeX file has been written
    main_s,         \* s: the text read from the LaTeX file
    news,           \* the text under replacement in replace_eprint2texkeys
    bibfile,        \* the name of the bib file (None before it is known)
    bib,            \* the bib file on disk (None when it does not exist)
    bbl,            \* the bbl file on disk (None when it does not exist)
    bibentry_texkey,\* Record.texkey of bibentry: eprint -> texkey
    todo_keys,      \* the keys a loop over a dict has yet to visit
    todo_list,      \* the rest of the list a loop is going through
    known,          \* the keys found in the bib or bbl file before the loop
    fetchlog,       \* the queries of inspirehtml and what they returned
    exit_status,    \* the exit status of the run (None while it runs)
    \* ---- getinspire.py: TeX.__init__ and TeX.bib_name --------------------
    filename,       \* the argument of TeX(filename)
    disk,           \* the files that can be opened: path -> None or text
    tpc,            \* "new", "loaded" or "raised" (FileNotFoundError)
    tex_errors,     \* errors: the paths that could not be opened
    tex_filename,   \* TeX.filename (None before a file is loaded)
    tex_bib_name    \* what TeX.bib_name() did (None before it is called)

keyVars   == <<key, kres>>
fetchVars == <<python3, fpc, response, page, div_depth, div_pagebody, pre_list,
               pre_content, requests, outcome>>
textVars  == <<doc, text, refs, cite_texkey, cite_list, cite_calls>>
mainVars  == <<mpc, thebibliography, appendbli, bbltoinspire, latexformat,
               latexfile, latex_writes, main_s, news, bibfile, bib, bbl,
               bibentry_texkey, todo_keys, todo_list, known, fetchlog,
               exit_status>>
texVars   == <<filename, disk, tpc, tex_errors, tex_filename, tex_bib_name>>
vars      == <<keyVars, fetchVars, textVars, mainVars, texVars>>

\* Python's None, and a value that is not None
None == <<>>
Some(x) == <<x>>

-----------------------------------------------------------------------------
(* Characters and character classes of the regular expressions.            *)

Digits == {"0", "1", "2", "3", "4", "5", "6", "7", "8", "9"}
Lower  == {"a", "b", "c", "d", "e", "f", "g", "h", "i", "j", "k", "l", "m",
           "n", "o", "p", "q", "r", "s", "t", "u", "v", "w", "x", "y", "z"}
Upper  == {"A", "B", "C", "D", "E", "F", "G", "H", "I", "J", "K", "L", "M",
           "N", "O", "P", "Q", "R", "S", "T", "U", "V", "W", "X", "Y", "Z"}
Letters == Lower \cup Upper
\* \s of the re module
Whitespace == {" ", "\t", "\n", "\r", "\f"}

\* every character of s[a..b] is in class C (true of an empty range)
AllIn(s, a, b, C) == \A i \in a..b : s[i] \in C

\* the literal p occurs in s at position i
LitAt(s, i, p) ==
    /\ i >= 1
    /\ i + Len(p) - 1 <= Len(s)
    /\ \A j \in 1..Len(p) : s[i + j - 1] = p[j]

\* the positions at which a pattern's final $ can match: the end of the
\* string, and just before a newline that ends the string
DollarEnds(s) ==
    {Len(s)} \cup (IF Len(s) > 0 /\ s[Len(s)] = "\n" THEN {Len(s) - 1} ELSE {})

-----------------------------------------------------------------------------
(* inspire.py: class Key                                                   *)

UNKNOWN == "UNKNOWN"
INSPIRE == "INSPIRE"
ARXIV   == "ARXIV"

\* [a-z0-9'.-] and [0-9a-z] under re.IGNORECASE
InspireLabelChars  == Letters \cup Digits \cup {"'", ".", "-"}
\* a suffix class that lets the period of an eprint number through
InspireSuffixCharsWithDot == Letters \cup Digits \cup {"."}
InspireSuffixChars == Letters \cup Digits

\* INSPIRE_REGEX.match(s): ^[a-z0-9'.-]+:[0-9a-z]+$
INSPIRE_REGEX(s) ==
    \E n \in DollarEnds(s) : \E i \in 2..(n - 1) :
        /\ AllIn(s, 1, i - 1, InspireLabelChars)
        /\ s[i] = ":"
        /\ AllIn(s, i + 1, n, InspireSuffixChars)

\* [a-z.-] under re.IGNORECASE
ArxivAreaChars == Letters \cup {".", "-"}

\* s[a..n] matches [a-z.-]+/\d{7}
ArxivSlashForm(s, a, n) ==
    /\ n - 8 >= a
    /\ AllIn(s, a, n - 8, ArxivAreaChars)
    /\ s[n - 7] = "/"
    /\ AllIn(s, n - 6, n, Digits)

\* s[a..n] matches \d{4}\.\d{4,5}
ArxivDotForm(s, a, n) ==
    /\ (n - a + 1) \in {9, 10}
    /\ AllIn(s, a, a + 3, Digits)
    /\ s[a + 4] = "."
    /\ AllIn(s, a + 5, n, Digits)

\* the lengths the optional group (?:arxiv:?)? can take at the start of s,
\* in the order the greedy matcher tries them
ArxivPrefixLens(s) ==
    LET isArxiv == /\ Len(s) >= 5
                   /\ s[1] \in {"a", "A"} /\ s[2] \in {"r", "R"}
                   /\ s[3] \in {"x", "X"} /\ s[4] \in {"i", "I"}
                   /\ s[5] \in {"v", "V"}
        colon   == isArxiv /\ Len(s) >= 6 /\ s[6] = ":"
    IN  (IF colon THEN <<6>> ELSE <<>>) \o (IF isArxiv THEN <<5>> ELSE <<>>) \o <<0>>

ArxivBodyAt(s, p) ==
    \E n \in DollarEnds(s) :
        ArxivSlashForm(s, p + 1, n) \/ ArxivDotForm(s, p + 1, n)

\* ARXIV_REGEX.match(s): the lengths of the prefix alternatives that match
ArxivMatches(s) ==
    SelectSeq(ArxivPrefixLens(s), LAMBDA p : ArxivBodyAt(s, p))

ARXIV_REGEX(s) == ArxivMatches(s) # <<>>

\* match.group(1) of ARXIV_REGEX: the identifier without its scheme tag
ArxivGroup1(s) ==
    LET p == Head(ArxivMatches(s))
        n == CHOOSE m \in DollarEnds(s) :
                 ArxivSlashForm(s, p + 1, m) \/ ArxivDotForm(s, p + 1, m)
    IN  SubSeq(s, p + 1, n)

\* Key.format(key): (bare key, type)
KeyFormat(k) ==
    IF INSPIRE_REGEX(k) THEN <<k, INSPIRE>>
    ELSE IF ARXIV_REGEX(k) THEN <<ArxivGroup1(k), ARXIV>>
    ELSE <<k, UNKNOWN>>

is_unknown(k) == KeyFormat(k)[2] = UNKNOWN
is_inspire(k) == KeyFormat(k)[2] = INSPIRE
is_arxiv(k)   == KeyFormat(k)[2] = ARXIV


-----------------------------------------------------------------------------
(* inspire.py: class InspireHTMLParser.  An event is one handler call that *)
(* HTMLParser.feed makes: a start tag with its attributes, an end tag, or  *)
(* a run of text.                                                          *)

StartTag(tag, attr) == [ev |-> "start", tag |-> tag, attr |-> attr, data |-> <<>>]
EndTag(tag)         == [ev |-> "end", tag |-> tag, attr |-> <<>>, data |-> <<>>]
Data(d)             == [ev |-> "data", tag |-> "", attr |-> <<>>, data |-> d]

\* the parser's fields as one record
ParserState == [div_depth |-> div_depth, div_pagebody |-> div_pagebody,
                pre_list |-> pre_list, pre_content |-> pre_content,
                error |-> FALSE]

\* InspireHTMLParser.__init__
ParserInit == [div_depth |-> 0, div_pagebody |-> None,
               pre_list |-> <<>>, pre_content |-> None, error |-> FALSE]

\* the value div_pagebody has after the loop over attr of a <div> at depth d
RECURSIVE PagebodyAfterAttrs(_, _, _)
PagebodyAfterAttrs(attr, d, cur) ==
    IF attr = <<>> THEN cur
    ELSE LET a == Head(attr)
         IN  PagebodyAfterAttrs(Tail(attr), d,
                 IF a[1] = "class" /\ a[2] = "pagebody" THEN Some(d) ELSE cur)

\* self.div_pagebody <= self.div_depth, where div_pagebody may be None:
\* Python 2 orders None below every integer, Python 3 raises TypeError
PagebodyLeqDepth(ps, py3) ==
    IF ps.div_pagebody = None
    THEN (IF py3 THEN "TypeError" ELSE "True")
    ELSE (IF ps.div_pagebody[1] <= ps.div_depth THEN "True" ELSE "False")

\* InspireHTMLParser.handle_starttag
handle_starttag(ps, tag, attr, py3) ==
    IF tag = "div"
    THEN [ps EXCEPT !.div_depth = ps.div_depth + 1,
                    !.div_pagebody =
                        PagebodyAfterAttrs(attr, ps.div_depth + 1, ps.div_pagebody)]
    ELSE IF tag = "pre"
    THEN CASE PagebodyLeqDepth(ps, py3) = "True"      -> [ps EXCEPT !.pre_content = Some(<<>>)]
           [] PagebodyLeqDepth(ps, py3) = "False"     -> ps
           [] PagebodyLeqDepth(ps, py3) = "TypeError" -> [ps EXCEPT !.error = TRUE]
    ELSE ps

\* InspireHTMLParser.handle_endtag
handle_endtag(ps, tag) ==
    IF ps.div_depth > 0 /\ tag = "div"
    THEN [ps EXCEPT !.div_depth = ps.div_depth - 1,
                    !.div_pagebody =
                        IF ps.div_pagebody # None /\ ps.div_pagebody[1] > ps.div_depth - 1
                        THEN None ELSE ps.div_pagebody]
    ELSE IF tag = "pre"
    THEN [ps EXCEPT !.pre_list = IF ps.pre_content # None
                                 THEN Append(ps.pre_list, ps.pre_content[1])
                                 ELSE ps.pre_list,
                    !.pre_content = None]
    ELSE ps

\* InspireHTMLParser.handle_data
handle_data(ps, d) ==
    IF ps.pre_content # None
    THEN [ps EXCEPT !.pre_content = Some(ps.pre_content[1] \o d \o <<"\n">>)]
    ELSE ps

\* one handler call
ParserHandle(ps, e, py3) ==
    CASE e.ev = "start" -> handle_starttag(ps, e.tag, e.attr, py3)
      [] e.ev = "end"   -> handle_endtag(ps, e.tag)
      [] e.ev = "data"  -> handle_data(ps, e.data)

-----------------------------------------------------------------------------
(* inspire.py: class Inspire                                               *)

\* str.strip(): leading and trailing whitespace removed
RECURSIVE LStrip(_)
LStrip(s) == IF s # <<>> /\ Head(s) \in Whitespace THEN LStrip(Tail(s)) ELSE s
RECURSIVE RStrip(_)
RStrip(s) ==
    IF s # <<>> /\ s[Len(s)] \in Whitespace THEN RStrip(SubSeq(s, 1, Len(s) - 1)) ELSE s
Strip(s) == RStrip(LStrip(s))

FindEprint == <<"f", "i", "n", "d", " ", "e", "p", "r", "i", "n", "t", " ">>

\* the p= parameter of the search: the query Inspire.fetch builds for a key
\* of a known type
FetchQuery(k) ==
    IF KeyFormat(k)[2] = INSPIRE THEN KeyFormat(k)[1]
    ELSE FindEprint \o KeyFormat(k)[1]

\* a fetch that takes the first of several records
FetchResultFirst(results) ==
    IF Len(results) = 0 THEN Some([kind |-> "RecordNotFound", value |-> <<>>])
    ELSE Some([kind |-> "return", value |-> Strip(results[1])])

\* the branch on len(results) that ends Inspire.fetch
FetchResult(results) ==
    IF Len(results) = 0 THEN Some([kind |-> "RecordNotFound", value |-> <<>>])
    ELSE IF Len(results) > 1 THEN Some([kind |-> "MultipleRecordsFound", value |-> <<>>])
    ELSE Some([kind |-> "return", value |-> Strip(results[1])])

-----------------------------------------------------------------------------
(* Helpers on text.                                                        *)

Min(S) == CHOOSE m \in S : \A n \in S : m <= n
Max(S) == CHOOSE m \in S : \A n \in S : m >= n

\* the first position >= from at which s holds character c, or 0
FirstAt(s, c, from) ==
    LET S == {m \in from..Len(s) : s[m] = c}
    IN  IF S = {} THEN 0 ELSE Min(S)

\* the number of characters of class C that s holds from position a on
RECURSIVE RunLen(_, _, _)
RunLen(s, a, C) ==
    IF a <= Len(s) /\ s[a] \in C THEN 1 + RunLen(s, a + 1, C) ELSE 0

\* the concatenation of a sequence of texts
RECURSIVE Concat(_)
Concat(ss) == IF ss = <<>> THEN <<>> ELSE Head(ss) \o Concat(Tail(ss))

\* str.split(c)
RECURSIVE Split(_, _)
Split(s, c) ==
    LET i == FirstAt(s, c, 1)
    IN  IF i = 0 THEN <<s>>
        ELSE <<SubSeq(s, 1, i - 1)>> \o Split(SubSeq(s, i + 1, Len(s)), c)

\* re.split(r'\s*,\s*', s)
RECURSIVE SplitCommaWs(_)
SplitCommaWs(s) ==
    LET i == FirstAt(s, ",", 1)
    IN  IF i = 0 THEN <<s>>
        ELSE <<RStrip(SubSeq(s, 1, i - 1))>>
                 \o SplitCommaWs(LStrip(SubSeq(s, i + 1, Len(s))))

\* the table when every key is appended, seen before or not
AddKeysAlways(table, ks) == table \o ks

\* an ordered table of keys with every key of ks that it lacks added at
\* the end:  if key not in refs: refs[key] = ...
RECURSIVE AddKeys(_, _)
AddKeys(table, ks) ==
    IF ks = <<>> THEN table
    ELSE AddKeys(IF \E i \in 1..Len(table) : table[i] = Head(ks)
                 THEN table ELSE Append(table, Head(ks)),
                 Tail(ks))

Range(f) == {f[i] : i \in DOMAIN f}

-----------------------------------------------------------------------------
(* getinspire.py: class TeX                                                *)

BackslashCite == <<"\\", "c", "i", "t", "e">>

\* CITE_REGEX  (\\cite(\[.*?\])?{(.*?)})  with re.DOTALL, matched at
\* position i of s: <<start of group 3, position of the closing brace>>,
\* or <<>> when the pattern does not match there
CiteMatchAt(s, i) ==
    IF ~LitAt(s, i, BackslashCite) THEN <<>>
    ELSE LET j == i + 5
         IN  IF j <= Len(s) /\ s[j] = "["
             THEN LET ks == {k \in (j + 1)..(Len(s) - 2) :
                                 /\ s[k] = "]"
                                 /\ s[k + 1] = "{"
                                 /\ FirstAt(s, "}", k + 2) # 0}
                  IN  IF ks = {} THEN <<>>
                      ELSE <<Min(ks) + 2, FirstAt(s, "}", Min(ks) + 2)>>
             ELSE IF j <= Len(s) /\ s[j] = "{" /\ FirstAt(s, "}", j + 1) # 0
             THEN <<j + 1, FirstAt(s, "}", j + 1)>>
             ELSE <<>>

\* CITE_REGEX.finditer(s) from position i on: group(3) of each match
RECURSIVE CiteBodies(_, _)
CiteBodies(s, i) ==
    IF i > Len(s) THEN <<>>
    ELSE LET m == CiteMatchAt(s, i)
         IN  IF m = <<>> THEN CiteBodies(s, i + 1)
             ELSE <<SubSeq(s, m[1], m[2] - 1)>> \o CiteBodies(s, m[2] + 1)

\* the keys of the matches, one after the other, in the order of the loops
\* of TeX.references
RECURSIVE KeysOfBodies(_)
KeysOfBodies(bodies) ==
    IF bodies = <<>> THEN <<>>
    ELSE SplitCommaWs(Head(bodies)) \o KeysOfBodies(Tail(bodies))

\* TeX.references(): the keys of the OrderedDict, in its order
references(s) == AddKeys(<<>>, KeysOfBodies(CiteBodies(s, 1)))

BackslashBibliography ==
    <<"\\", "b", "i", "b", "l", "i", "o", "g", "r", "a", "p", "h", "y", "{">>
BackslashBibdata == <<"\\", "b", "i", "b", "d", "a", "t", "a", "{">>

\* CITE_BIB_IN_TEX.findall(s) and CITE_BIB_IN_AUX.findall(s) from position i
\* on: what stands between the literal lit and the next closing brace
RECURSIVE BibBodies(_, _, _)
BibBodies(s, lit, i) ==
    IF i > Len(s) THEN <<>>
    ELSE IF LitAt(s, i, lit) /\ FirstAt(s, "}", i + Len(lit)) # 0
    THEN <<SubSeq(s, i + Len(lit), FirstAt(s, "}", i + Len(lit)) - 1)>>
             \o BibBodies(s, lit, FirstAt(s, "}", i + Len(lit)) + 1)
    ELSE BibBodies(s, lit, i + 1)

\* TeX.bib_name() for a file in the working directory, on the text s and
\* what get_aux() returned: <<"raise", <<"MultipleBibError">>>>, or
\* <<"return", name>> with <<>> for False
bib_name(s, aux_data) ==
    LET bib_keys == IF aux_data = None
                    THEN BibBodies(s, BackslashBibliography, 1)
                    ELSE BibBodies(aux_data[1], BackslashBibdata, 1)
        bibs     == KeysOfBodies(bib_keys)
    IN  IF bibs = <<>> THEN <<"return", <<>>>>
        ELSE IF \E i \in 1..Len(bibs) : bibs[i] # bibs[1]
        THEN <<"raise", <<"MultipleBibError">>>>
        ELSE <<"return", bibs[1] \o <<".", "b", "i", "b">>>>

-----------------------------------------------------------------------------
(* getinspire.py: the legacy extractor, class Cite                         *)

\* eptkregex: [a-zA-Z:0-9,\/\-._\']
EptkChars == Letters \cup Digits \cup {":", ",", "/", "-", ".", "_", "'"}

BackslashCiteBrace == <<"\\", "c", "i", "t", "e", "{">>
Colons3 == <<":", ":", ":">>

\* re.sub(r'\\cite{(eptkregex*)}', '\n:::\\1:::\n', s) from position i on
RECURSIVE MarkCites(_, _)
MarkCites(s, i) ==
    IF i > Len(s) THEN <<>>
    ELSE LET n == RunLen(s, i + 6, EptkChars)
         IN  IF /\ LitAt(s, i, BackslashCiteBrace)
                /\ i + 6 + n <= Len(s)
                /\ s[i + 6 + n] = "}"
             THEN <<"\n">> \o Colons3 \o SubSeq(s, i + 6, i + 5 + n) \o Colons3
                      \o <<"\n">> \o MarkCites(s, i + 7 + n)
             ELSE <<s[i]>> \o MarkCites(s, i + 1)

\* re.search(':::(.*):::', line).group(), or <<>> when there is no match;
\* the line holds no newline
SearchColons(line) ==
    LET starts == {a \in 1..Len(line) : LitAt(line, a, Colons3)}
    IN  IF starts = {} THEN <<>>
        ELSE LET a  == Min(starts)
                 bs == {b \in starts : b >= a + 3}
             IN  IF bs = {} THEN <<>> ELSE <<SubSeq(line, a, Max(bs) + 2)>>

\* re.sub(':::', '', k)
RECURSIVE DropColons(_)
DropColons(k) ==
    IF k = <<>> THEN <<>>
    ELSE IF LitAt(k, 1, Colons3) THEN DropColons(SubSeq(k, 4, Len(k)))
    ELSE <<Head(k)>> \o DropColons(Tail(k))

\* the list comprehension of Cite.ExtractTexkeys: for every line of the
\* marked text that holds :::...:::, the keys between the marks
RECURSIVE KeysOfLines(_)
KeysOfLines(lines) ==
    IF lines = <<>> THEN <<>>
    ELSE LET j == SearchColons(Head(lines))
         IN  (IF j = <<>> THEN <<>> ELSE Split(DropColons(j[1]), ","))
                 \o KeysOfLines(Tail(lines))

\* Cite.ExtractTexkeys(s) on a Cite whose list is `list`: the new list
ExtractTexkeys(list, s) ==
    AddKeys(list, KeysOfLines(Split(MarkCites(s, 1), "\n")))

-----------------------------------------------------------------------------
(* getinspire.py: checkfind and replaceeprint                              *)

\* re.search(r'[0-9]{4}\.[0-9]{4}', s)
HasDotEprint(s) ==
    \E i \in 1..(Len(s) - 8) :
        /\ AllIn(s, i, i + 3, Digits)
        /\ s[i + 4] = "."
        /\ AllIn(s, i + 5, i + 8, Digits)

\* re.search(r'[a-z\-\/]*[0-9]{7}', s): the starred class may match nothing
HasSevenDigits(s) ==
    \E i \in 1..(Len(s) - 6) : AllIn(s, i, i + 6, Digits)

\* re.search(texkeyregex, s) with texkeyregex = [a-zA-Z'.\-]*:[0-9a-z]*:
\* both starred classes may match nothing
HasTexkey(s) == \E i \in 1..Len(s) : s[i] = ":"

\* checkfind(s): the one key of the dict it returns
checkfind(s) ==
    IF HasDotEprint(s) \/ HasSevenDigits(s) THEN "eprint"
    ELSE IF HasTexkey(s) THEN "texkey"
    ELSE "other"

\* one character of the eprint, used as a pattern, against a character of
\* the text: a period matches any character but a newline
PatChar(pc, c) == IF pc = "." THEN c # "\n" ELSE pc = c

\* the eprint, used as a pattern, matches s at position i
PatAt(s, i, pat) ==
    /\ i + Len(pat) - 1 <= Len(s)
    /\ \A j \in 1..Len(pat) : PatChar(pat[j], s[i + j - 1])

\* the lengths group 1 of  (\\cite{E*)eprint(E*})  can take after the
\* brace at position a - 1 so that the whole pattern matches
ReplaceSplits(eprint, s, a) ==
    {n \in 0..RunLen(s, a, EptkChars) :
        /\ PatAt(s, a + n, eprint)
        /\ LET q == a + n + Len(eprint)
               e == q + RunLen(s, q, EptkChars)
           IN  e <= Len(s) /\ s[e] = "}"}

\* re.sub(r'(\\cite{E*)eprint(E*})', r'\1texkey\2', s) from position i on:
\* group 1 is greedy, so the last place of the eprint in the braces is taken
RECURSIVE ReplaceFrom(_, _, _, _)
ReplaceFrom(eprint, texkey, s, i) ==
    IF i > Len(s) THEN <<>>
    ELSE IF LitAt(s, i, BackslashCiteBrace) /\ ReplaceSplits(eprint, s, i + 6) # {}
    THEN LET a == i + 6
             n == Max(ReplaceSplits(eprint, s, a))
             q == a + n + Len(eprint)
             e == q + RunLen(s, q, EptkChars)
         IN  SubSeq(s, i, a + n - 1) \o texkey \o SubSeq(s, q, e)
                 \o ReplaceFrom(eprint, texkey, s, e + 1)
    ELSE <<s[i]>> \o ReplaceFrom(eprint, texkey, s, i + 1)

\* replaceeprint(eprint, texkey, s) and Cite.replace(eprint, texkey, s)
replaceeprint(eprint, texkey, s) == ReplaceFrom(eprint, texkey, s, 1)

-----------------------------------------------------------------------------
(* getinspire.py: the text functions of the legacy run.  The text of the   *)
(* bibliography files and of the fetched records is a sequence of symbols: *)
(* single characters, and the fixed words of the patterns below taken      *)
(* whole.                                                                  *)

AtType          == "@article{"            \* matched by @[A-Za-z]+{
EprintWord      == "eprint"
Bibitem         == "\\bibitem{"
BeginBib        == "\\begin{thebibliography}{10}"
EndBib          == "\\end{thebibliography}"
Br              == "<br>"
Nbsp            == "&nbsp;"
NotFound        == <<"NotFound">>

\* the position of the last c of the line of s that position i lies on,
\* from i on, or 0
LastOnLine(s, c, i) ==
    LET nl  == FirstAt(s, "\n", i)
        lim == IF nl = 0 THEN Len(s) ELSE nl - 1
        S   == {m \in i..lim : s[m] = c}
    IN  IF S = {} THEN 0 ELSE Max(S)

\* re.search(lit + '(.*)' + c, s).groups()[0] for a literal lit and a closing
\* character c: <<the group>>, or <<>> when nothing matches
SearchGroup(s, lit, c) ==
    LET starts == {i \in 1..Len(s) :
                       LitAt(s, i, lit) /\ LastOnLine(s, c, i + Len(lit)) # 0}
    IN  IF starts = {} THEN <<>>
        ELSE LET i == Min(starts)
             IN  <<SubSeq(s, i + Len(lit), LastOnLine(s, c, i + Len(lit)) - 1)>>

\* re.sub('%(.*)\n', '\n', uns) from position i on
RECURSIVE DropComments(_, _)
DropComments(s, i) ==
    IF i > Len(s) THEN <<>>
    ELSE IF s[i] = "%" /\ FirstAt(s, "\n", i + 1) # 0
    THEN <<"\n">> \o DropComments(s, FirstAt(s, "\n", i + 1) + 1)
    ELSE <<s[i]>> \o DropComments(s, i + 1)

DotBib == <<".", "b", "i", "b">>

\* lines 492-497 of getinspire_main: the name of the bib file, or <<>> when
\* the text has no \bibliography{...}
MainBibfile(s) ==
    LET uns == DropComments(s \o <<"\n">>, 1)
        g   == SearchGroup(uns, BackslashBibliography, "}")
    IN  IF g = <<>> THEN <<>>
        ELSE IF \E i \in 1..Len(g[1]) : LitAt(g[1], i, DotBib) THEN g
        ELSE <<g[1] \o DotBib>>

\* the text with every symbol a replaced by the symbol b: str.replace(a, b)
ReplaceSymbol(s, a, b) == [i \in 1..Len(s) |-> IF s[i] = a THEN b ELSE s[i]]

\* re.sub('^\n', '', s)
DropLeadingNewline(s) == IF s # <<>> /\ s[1] = "\n" THEN Tail(s) ELSE s

\* re.sub(r'^%.*\n', '', s)
DropLeadingCommentLine(s) ==
    IF s # <<>> /\ s[1] = "%" /\ FirstAt(s, "\n", 2) # 0
    THEN SubSeq(s, FirstAt(s, "\n", 2) + 1, Len(s))
    ELSE s

\* inspirehtml(value, formath) after urlopen, for a page that is not
\* "403 Forbidden": the text of the first <pre>, or 'NotFound'
inspirehtml(pres, formath) ==
    IF pres = <<>> THEN NotFound
    ELSE LET c == DropLeadingNewline(DropLeadingNewline(pres[1]))
         IN  IF formath \in {"hlxe", "hlxu"}
             THEN DropLeadingCommentLine(
                      ReplaceSymbol(ReplaceSymbol(c, Br, "\n"), Nbsp, " "))
             ELSE c

\* re.sub('\s*"', '', s)
RECURSIVE DropQuotes(_)
DropQuotes(s) ==
    IF s = <<>> THEN <<>>
    ELSE LET n == RunLen(s, 1, Whitespace)
         IN  IF n < Len(s) /\ s[n + 1] = "\""
             THEN DropQuotes(SubSeq(s, n + 2, Len(s)))
             ELSE <<Head(s)>> \o DropQuotes(Tail(s))

\* Record.getBibTeX: the texkey of  @type{(.*),  or '' (lines 204-205)
Bibtexkey(c) ==
    LET g == SearchGroup(c, <<AtType>>, ",")
    IN  IF g = <<>> THEN <<>> ELSE g[1]

\* Record.getBibTeX: the eprint of  eprint\s*=(.*),  or '' (lines 208-209)
Bibeprint(c) ==
    LET starts == {i \in 1..Len(c) :
                       /\ c[i] = EprintWord
                       /\ LET e == i + 1 + RunLen(c, i + 1, Whitespace)
                          IN  /\ e <= Len(c)
                              /\ c[e] = "="
                              /\ LastOnLine(c, ",", e + 1) # 0}
    IN  IF starts = {} THEN <<>>
        ELSE LET i == Min(starts)
                 e == i + 1 + RunLen(c, i + 1, Whitespace)
             IN  DropQuotes(SubSeq(c, e + 1, LastOnLine(c, ",", e + 1) - 1))

\* Record.getBibTeX on the dict Record.texkey (a function from eprints to
\* texkeys): lines 210-211
RecordTexkey(dict, c) ==
    IF Bibtexkey(c) # <<>> /\ Bibeprint(c) # <<>>
    THEN [e \in DOMAIN dict \cup {Bibeprint(c)} |->
              IF e = Bibeprint(c) THEN Bibtexkey(c) ELSE dict[e]]
    ELSE dict

\* [a-zA-Z'.\-] and [0-9a-z] of texkeyregex
TexkeyLabelChars  == Letters \cup {"'", ".", "-"}
TexkeySuffixChars == Digits \cup Lower

\* texkeyregex matches s from position a up to exactly the closing symbol c:
\* the position of c, or 0
TexkeyUpTo(s, a, c) ==
    LET colon == a + RunLen(s, a, TexkeyLabelChars)
        e     == colon + 1 + RunLen(s, colon + 1, TexkeySuffixChars)
    IN  IF /\ colon <= Len(s) /\ s[colon] = ":"
           /\ e <= Len(s) /\ s[e] = c
        THEN e ELSE 0

\* re.sub(open + '(texkeyregex)' + close, r':::\1:::', s) from position i on
RECURSIVE MarkKeys(_, _, _, _)
MarkKeys(s, i, open, close) ==
    IF i > Len(s) THEN <<>>
    ELSE IF s[i] = open /\ TexkeyUpTo(s, i + 1, close) # 0
    THEN Colons3 \o SubSeq(s, i + 1, TexkeyUpTo(s, i + 1, close) - 1) \o Colons3
             \o MarkKeys(s, TexkeyUpTo(s, i + 1, close) + 1, open, close)
    ELSE <<s[i]>> \o MarkKeys(s, i + 1, open, close)

\* for every line that holds :::...:::, what is between the first and the
\* last mark, the marks inside dropped
RECURSIVE MarkedOfLines(_)
MarkedOfLines(lines) ==
    IF lines = <<>> THEN <<>>
    ELSE LET j == SearchColons(Head(lines))
         IN  (IF j = <<>> THEN <<>> ELSE <<DropColons(j[1])>>)
                 \o MarkedOfLines(Tail(lines))

\* ExtractBibkeys(s): the keys of the dict
ExtractBibkeys(s) == Range(MarkedOfLines(Split(MarkKeys(s, 1, AtType, ","), "\n")))

\* ExtractBibitemkeys(s)
ExtractBibitemkeys(s) == MarkedOfLines(Split(MarkKeys(s, 1, Bibitem, "}"), "\n"))

\* re.sub(r'\\end{thebibliography}', '', bbl)
DropEndBib(s) == SelectSeq(s, LAMBDA x : x # EndBib)

\* 'EU' -> 'hlxe', 'US' -> 'hlxu'
formatdict(lformat) == IF lformat = "EU" THEN "hlxe" ELSE "hlxu"

-----------------------------------------------------------------------------
(* Inputs of the Key and Inspire specifications.                           *)

Deshpande1977rw == <<"D", "e", "s", "h", "p", "a", "n", "d", "e", ":",
                     "1", "9", "7", "7", "r", "w">>
HepPh0603188    == <<"h", "e", "p", "-", "p", "h", "/",
                     "0", "6", "0", "3", "1", "8", "8">>
K12077214       == <<"1", "2", "0", "7", ".", "7", "2", "1", "4">>
RandomText      == <<"r", "a", "n", "d", "o", "m", " ", "t", "e", "x", "t">>
ExampleKeys     == {Deshpande1977rw, HepPh0603188, K12077214, RandomText}

\* the pieces keys are put together from
KeyChunks == {<<"a">>, <<".">>, <<"/">>, <<":">>, <<"_">>,
              <<"1", "2", "0", "7">>, <<"7", "2", "1", "4", "5">>,
              <<"0", "6", "0", "3", "1", "8", "8">>}
KeyPrefixes == {<<>>, <<"a", "r", "X", "i", "v">>, <<"a", "r", "X", "i", "v", ":">>}
KeySuffixes == {<<>>, <<"\n">>}

\* the most pieces in the body of a key
MaxKeyChunks == 3

RECURSIVE KeyBodies(_)
KeyBodies(n) ==
    IF n = 0 THEN {<<>>}
    ELSE LET prev == KeyBodies(n - 1)
         IN  prev \cup {b \o c : b \in prev, c \in KeyChunks}

KeyInputs ==
    ExampleKeys \cup
    {p \o b \o s : p \in KeyPrefixes, b \in KeyBodies(MaxKeyChunks), s \in KeySuffixes}

\* the keys Inspire.fetch is called with
FetchKeys == ExampleKeys \cup
             {<<"a", "r", "X", "i", "v", ":">> \o K12077214, <<"a", "_", "b", ":", "1">>}

\* the text of the records a response carries
RecordTexts == {<<"r", "1">>, <<"\n", " ", "r", "2", " ">>}

\* the most records in a response (the query asks for rg=3)
MaxRecords == 3

RECURSIVE RecordLists(_)
RecordLists(n) ==
    IF n = 0 THEN {<<>>}
    ELSE LET prev == RecordLists(n - 1)
         IN  prev \cup {Append(l, r) : l \in prev, r \in RecordTexts}

RECURSIVE PreElements(_)
PreElements(recs) ==
    IF recs = <<>> THEN <<>>
    ELSE <<StartTag("pre", <<>>), Data(Head(recs)), EndTag("pre")>>
             \o PreElements(Tail(recs))

PagebodyDiv == StartTag("div", <<<<"class", "pagebody">>>>)
PlainDiv    == StartTag("div", <<<<"class", "pageheader">>>>)

\* a search page of the service: the records, each in a <pre>, inside the
\* <div class="pagebody">, which may sit in a page-level <div> and may hold
\* the records in a further <div>
ServicePage(recs, layout) ==
    CASE layout = "flat" ->
            <<PagebodyDiv>> \o PreElements(recs) \o <<EndTag("div")>>
      [] layout = "wrapped" ->
            <<PlainDiv, Data(<<"h">>), EndTag("div"), StartTag("div", <<>>), PagebodyDiv>>
                \o PreElements(recs) \o <<EndTag("div"), EndTag("div")>>
      [] layout = "nested" ->
            <<PagebodyDiv, StartTag("div", <<>>)>>
                \o PreElements(recs) \o <<EndTag("div"), Data(<<"f">>), EndTag("div")>>

ServicePages ==
    {ServicePage(recs, layout) :
        recs \in RecordLists(MaxRecords), layout \in {"flat", "wrapped", "nested"}}

\* the records of a service page: the text of each <pre> element
RECURSIVE PageRecords(_)
PageRecords(pg) ==
    IF Len(pg) < 2 THEN <<>>
    ELSE (IF pg[1].ev = "start" /\ pg[1].tag = "pre" /\ pg[2].ev = "data"
          THEN <<pg[2].data>> ELSE <<>>) \o PageRecords(Tail(pg))

-----------------------------------------------------------------------------
(* Specification SpecKey: the classmethods of Key applied to a key.        *)

FetchIdle ==
    /\ fpc = "idle"
    /\ response = <<>>
    /\ page = <<>>
    /\ div_depth = 0
    /\ div_pagebody = None
    /\ pre_list = <<>>
    /\ pre_content = None
    /\ requests = <<>>
    /\ outcome = None

\* no document is loaded and the Cite object is as Cite.__init__ leaves it
TextIdle ==
    /\ doc = <<>>
    /\ text = <<>>
    /\ refs = None
    /\ cite_texkey = {}
    /\ cite_list = <<>>
    /\ cite_calls = 0

KeyIdle ==
    /\ key = <<>>
    /\ kres = None

\* getinspire_main is not running
MainIdle ==
    /\ mpc = "idle"
    /\ thebibliography = FALSE
    /\ appendbli = FALSE
    /\ bbltoinspire = FALSE
    /\ latexformat = "EU"
    /\ latexfile = None
    /\ latex_writes = 0
    /\ main_s = <<>>
    /\ news = <<>>
    /\ bibfile = None
    /\ bib = None
    /\ bbl = None
    /\ bibentry_texkey = <<>>
    /\ todo_keys = {}
    /\ todo_list = <<>>
    /\ known = {}
    /\ fetchlog = <<>>
    /\ exit_status = None

\* no TeX object is under construction
TeXIdle ==
    /\ filename = <<>>
    /\ disk = <<>>
    /\ tpc = "idle"
    /\ tex_errors = <<>>
    /\ tex_filename = None
    /\ tex_bib_name = None

InitKey ==
    /\ key \in KeyInputs
    /\ kres = None
    /\ python3 = FALSE
    /\ FetchIdle
    /\ TextIdle
    /\ MainIdle
    /\ TeXIdle

\* Key.format(key)
Format ==
    /\ kres' = Some([op |-> "format", val |-> KeyFormat(key)])
    /\ UNCHANGED <<key, fetchVars, textVars, mainVars, texVars>>

\* Key.is_unknown(key)
IsUnknown ==
    /\ kres' = Some([op |-> "is_unknown", val |-> is_unknown(key)])
    /\ UNCHANGED <<key, fetchVars, textVars, mainVars, texVars>>

\* Key.is_inspire(key)
IsInspire ==
    /\ kres' = Some([op |-> "is_inspire", val |-> is_inspire(key)])
    /\ UNCHANGED <<key, fetchVars, textVars, mainVars, texVars>>

\* Key.is_arxiv(key)
IsArxiv ==
    /\ kres' = Some([op |-> "is_arxiv", val |-> is_arxiv(key)])
    /\ UNCHANGED <<key, fetchVars, textVars, mainVars, texVars>>

NextKey == Format \/ IsUnknown \/ IsInspire \/ IsArxiv

SpecKey == InitKey /\ [][NextKey]_vars

-----------------------------------------------------------------------------
(* Specification SpecFetch: Inspire.fetch(key, output_format) against a    *)
(* service that answers with a search page.                                *)

InitFetch ==
    /\ key \in FetchKeys
    /\ kres = None
    /\ python3 \in BOOLEAN
    /\ FetchIdle
    /\ TextIdle
    /\ MainIdle
    /\ TeXIdle

\* Inspire.fetch up to urlopen: the key is classified; an unknown key raises
\* SkipUnknownQuery, any other is sent and the response is handed to a new
\* parser
FetchStart ==
    /\ fpc = "idle"
    /\ IF KeyFormat(key)[2] = UNKNOWN
       THEN /\ outcome' = Some([kind |-> "SkipUnknownQuery", value |-> <<>>])
            /\ fpc' = "done"
            /\ UNCHANGED <<response, page, requests>>
       ELSE /\ requests' = Append(requests, FetchQuery(key))
            /\ response' \in ServicePages
            /\ page' = response'
            /\ fpc' = "parsing"
            /\ UNCHANGED outcome
    /\ div_depth' = ParserInit.div_depth
    /\ div_pagebody' = ParserInit.div_pagebody
    /\ pre_list' = ParserInit.pre_list
    /\ pre_content' = ParserInit.pre_content
    /\ UNCHANGED <<keyVars, python3, textVars, mainVars, texVars>>

\* parser.feed: the next handler call
FetchFeed ==
    /\ fpc = "parsing"
    /\ page # <<>>
    /\ LET ps == ParserHandle(ParserState, Head(page), python3)
       IN  /\ div_depth' = ps.div_depth
           /\ div_pagebody' = ps.div_pagebody
           /\ pre_list' = ps.pre_list
           /\ pre_content' = ps.pre_content
           /\ IF ps.error
              THEN /\ outcome' = Some([kind |-> "TypeError", value |-> <<>>])
                   /\ fpc' = "done"
              ELSE UNCHANGED <<outcome, fpc>>
    /\ page' = Tail(page)
    /\ UNCHANGED <<keyVars, python3, response, requests, textVars, mainVars, texVars>>

\* Inspire.fetch after parser.feed: the branch on len(results)
FetchFinish ==
    /\ fpc = "parsing"
    /\ page = <<>>
    /\ outcome' = FetchResult(pre_list)
    /\ fpc' = "done"
    /\ UNCHANGED <<keyVars, python3, response, page, div_depth, div_pagebody,
                   pre_list, pre_content, requests, textVars, mainVars, texVars>>

NextFetch == FetchStart \/ FetchFeed \/ FetchFinish

SpecFetch == InitFetch /\ [][NextFetch]_vars

-----------------------------------------------------------------------------
(* Specification SpecParser: InspireHTMLParser fed with any sequence of    *)
(* start tags, end tags and text, as Inspire.fetch feeds it a response.    *)

\* the handler calls a response may give rise to
ParserEvents ==
    {PagebodyDiv, StartTag("div", <<>>), EndTag("div"),
     StartTag("pre", <<>>), EndTag("pre"), Data(<<"r">>)}

\* the most handler calls of one feed
MaxEvents == 5

RECURSIVE EventSeqs(_)
EventSeqs(n) ==
    IF n = 0 THEN {<<>>}
    ELSE LET prev == EventSeqs(n - 1)
         IN  prev \cup {Append(q, e) : q \in prev, e \in ParserEvents}

InitParser ==
    /\ key = K12077214
    /\ kres = None
    /\ python3 \in BOOLEAN
    /\ fpc = "parsing"
    /\ response \in EventSeqs(MaxEvents)
    /\ page = response
    /\ div_depth = ParserInit.div_depth
    /\ div_pagebody = ParserInit.div_pagebody
    /\ pre_list = ParserInit.pre_list
    /\ pre_content = ParserInit.pre_content
    /\ requests = <<FetchQuery(key)>>
    /\ outcome = None
    /\ TextIdle
    /\ MainIdle
    /\ TeXIdle

NextParser == FetchFeed \/ FetchFinish

SpecParser == InitParser /\ [][NextParser]_vars

-----------------------------------------------------------------------------
(* Documents.  A document is written as a sequence of items: citation      *)
(* invocations, comment characters, line ends.  Its text is what the       *)
(* extractors read; the items record which keys each invocation names.     *)

KA == <<"A", ":", "1">>
KB == <<"B", ":", "2">>
KC == <<"c">>

\* \cite{k1,k2,...} with the separator sep between the keys; plain tells
\* that the invocation has no optional argument and no blank in its braces
CiteItem(opt, ks, sep, plain) ==
    [kind |-> "cite", keys |-> ks, plain |-> plain,
     t |-> BackslashCite \o opt \o <<"{">> \o Head(ks)
             \o Concat([i \in 1..(Len(ks) - 1) |-> sep \o ks[i + 1]]) \o <<"}">>]

Cite1(k)      == CiteItem(<<>>, <<k>>, <<",">>, TRUE)
Cite2(k1, k2) == CiteItem(<<>>, <<k1, k2>>, <<",">>, TRUE)

\* text that names no key
TextItem(kind, t) == [kind |-> kind, keys |-> <<>>, plain |-> FALSE, t |-> t]

Percent        == TextItem("percent", <<"%">>)
EscapedPercent == TextItem("other", <<"\\", "%">>)
Newline        == TextItem("newline", <<"\n">>)

ExtractItems ==
    {Cite1(KA), Cite1(KB), Cite2(KA, KB), Cite2(KB, KA), Cite2(KB, KB),
     CiteItem(<<>>, <<KA, KB>>, <<",", " ">>, FALSE),
     CiteItem(<<"[", "p", "]">>, <<KC>>, <<",">>, FALSE),
     Percent, EscapedPercent, Newline}

\* the most items in a document
MaxItems == 3

RECURSIVE DocsOf(_, _)
DocsOf(items, n) ==
    IF n = 0 THEN {<<>>}
    ELSE LET prev == DocsOf(items, n - 1)
         IN  prev \cup {Append(d, it) : d \in prev, it \in items}

Render(d) == Concat([i \in 1..Len(d) |-> d[i].t])

\* item i of the document lies after an unescaped % on its line
Commented(d, i) ==
    \E j \in 1..(i - 1) :
        /\ d[j].kind = "percent"
        /\ \A m \in (j + 1)..(i - 1) : d[m].kind # "newline"

\* the invocations an extractor reads: all of them (TeX.references), or
\* only the plain ones (the pattern of Cite.ExtractTexkeys has no optional
\* argument and no blank)
Seen(d, i, plainOnly) == d[i].kind = "cite" /\ (plainOnly => d[i].plain)

\* every key occurrence of the document, in the order of the text
KeyOccurrences(d, plainOnly) ==
    Concat([i \in 1..Len(d) |-> IF Seen(d, i, plainOnly) THEN d[i].keys ELSE <<>>])

\* the keys named by an invocation that is not in a comment
UncommentedKeys(d, plainOnly) ==
    UNION {Range(d[i].keys) : i \in {j \in 1..Len(d) :
                                        Seen(d, j, plainOnly) /\ ~Commented(d, j)}}

\* the keys named only by invocations in comments
CommentedOnlyKeys(d, plainOnly) ==
    UNION {Range(d[i].keys) : i \in {j \in 1..Len(d) :
                                        Seen(d, j, plainOnly) /\ Commented(d, j)}}
        \ UncommentedKeys(d, plainOnly)

\* the occurrences that are the first of their key, in order
FirstOccurrences(occ) ==
    LET firsts == {i \in 1..Len(occ) : \A j \in 1..(i - 1) : occ[j] # occ[i]}
        RECURSIVE Pick(_)
        Pick(i) == IF i > Len(occ) THEN <<>>
                   ELSE (IF i \in firsts THEN <<occ[i]>> ELSE <<>>) \o Pick(i + 1)
    IN  Pick(1)

-----------------------------------------------------------------------------
(* Specification SpecExtract: the two extractors applied to a document.    *)

InitExtract ==
    /\ KeyIdle
    /\ python3 = FALSE
    /\ FetchIdle
    /\ MainIdle
    /\ TeXIdle
    /\ doc \in DocsOf(ExtractItems, MaxItems)
    /\ text = Render(doc)
    /\ refs = None
    /\ cite_texkey = {}
    /\ cite_list = <<>>
    /\ cite_calls = 0

\* TeX.references()
References ==
    /\ refs = None
    /\ refs' = Some(references(text))
    /\ UNCHANGED <<keyVars, fetchVars, mainVars, texVars, doc, text, cite_texkey, cite_list,
                   cite_calls>>

\* the most scans of one Cite object
MaxScans == 2

\* Cite.ExtractTexkeys(text), on the same Cite object each time
ScanTexkeys ==
    /\ cite_calls < MaxScans
    /\ cite_list' = ExtractTexkeys(cite_list, text)
    /\ cite_texkey' = Range(cite_list')
    /\ cite_calls' = cite_calls + 1
    /\ UNCHANGED <<keyVars, fetchVars, mainVars, texVars, doc, text, refs>>

NextExtract == References \/ ScanTexkeys

SpecExtract == InitExtract /\ [][NextExtract]_vars

-----------------------------------------------------------------------------
(* Specification SpecExtractEmpty: the two extractors applied to documents *)
(* that may hold \cite{}.                                                  *)

\* \cite{}: an invocation that names no key
EmptyCite ==
    [kind |-> "cite", keys |-> <<>>, plain |-> TRUE,
     t |-> BackslashCiteBrace \o <<"}">>]

InitExtractEmpty ==
    /\ KeyIdle
    /\ python3 = FALSE
    /\ FetchIdle
    /\ MainIdle
    /\ TeXIdle
    /\ doc \in DocsOf(ExtractItems \cup {EmptyCite}, MaxItems)
    /\ text = Render(doc)
    /\ refs = None
    /\ cite_texkey = {}
    /\ cite_list = <<>>
    /\ cite_calls = 0

SpecExtractEmpty == InitExtractEmpty /\ [][NextExtract]_vars

-----------------------------------------------------------------------------
(* Inputs of getinspire_main: the LaTeX file, the bib and bbl files found  *)
(* on disk, the options, and the answers of the service.                   *)

\* 1207x7214: not an eprint, but matched by the eprint 1207.7214 taken as a
\* pattern
K1207x7214 == <<"1", "2", "0", "7", "x", "7", "2", "1", "4">>
\* the texkeys of the records of 1207.7214 and of hep-ph/0603188
TexkeyR9 == <<"R", ":", "9">>
TexkeyS8 == <<"S", ":", "8">>

\* \bibliography{n1,n2,...}
BibDecl(names) ==
    [kind |-> "bibliography", keys |-> names, plain |-> FALSE,
     t |-> BackslashBibliography \o Head(names)
             \o Concat([i \in 1..(Len(names) - 1) |-> <<",">> \o names[i + 1]])
             \o <<"}">>]

BibA == <<"a">>
BibB == <<"b">>

MainItems ==
    {Cite1(K12077214), Cite2(K12077214, K12077214), Cite1(K1207x7214),
     Cite1(HepPh0603188), Cite1(KA), BibDecl(<<BibB>>), BibDecl(<<BibA, BibB>>), Percent}

\* the most items in the LaTeX file of a run
MaxMainItems == 2

\* the record the service holds for a key: its texkey
ServiceTexkey(value) ==
    IF value = K12077214 THEN TexkeyR9
    ELSE IF value = HepPh0603188 THEN TexkeyS8
    ELSE value

\* the text in the <pre> of a page of format hx for the record of value
BibTeXRecord(value) ==
    <<"\n", AtType>> \o ServiceTexkey(value) \o <<",", "\n">>
        \o (IF checkfind(value) = "eprint"
            THEN <<EprintWord, " ", "=", " ", "\"">> \o value \o <<"\"", ",", "\n">>
            ELSE <<>>)
        \o <<"}", "\n">>

\* the text in the <pre> of a page of format hlxe or hlxu
LaTeXRecord(value) ==
    <<"\n", "%", "c", "\n", Bibitem>> \o ServiceTexkey(value)
        \o <<"}", Br, "x", Nbsp, "y", "\n">>

\* text that is no record
Garbage == <<"o", "o", "p", "s">>

\* the pages the service may answer a query with: 403 Forbidden, no <pre>,
\* the record, or a <pre> with something else
MainPages(value, formath) ==
    {[forbidden |-> TRUE,  pres |-> <<>>],
     [forbidden |-> FALSE, pres |-> <<>>],
     [forbidden |-> FALSE,
      pres |-> <<IF formath = "hx" THEN BibTeXRecord(value)
                 ELSE LaTeXRecord(value)>>],
     [forbidden |-> FALSE, pres |-> <<Garbage>>]}

\* a bib file with the record of A:1, and a bbl file with its bibitem
ExistingBib == <<AtType>> \o KA \o <<",", "\n", "}", "\n">>
ExistingBbl ==
    <<BeginBib, "\n", "\n", Bibitem>> \o KA \o <<"}", "\n", "x", "\n", EndBib, "\n">>

\* the command lines and the files on disk of the runs
MainSetups ==
    LET Setup(t, a, b, f, tex, bibf, bblf) ==
            [t |-> t, a |-> a, b |-> b, f |-> f, tex |-> tex,
             bib |-> bibf, bbl |-> bblf]
    IN  {Setup(FALSE, FALSE, FALSE, "EU", TRUE,  None, None),
         Setup(FALSE, FALSE, FALSE, "EU", TRUE,  Some(ExistingBib), None),
         Setup(FALSE, FALSE, TRUE,  "EU", TRUE,  Some(ExistingBib), None),
         Setup(FALSE, FALSE, TRUE,  "US", TRUE,  Some(ExistingBib), Some(ExistingBbl)),
         Setup(TRUE,  FALSE, FALSE, "EU", TRUE,  None, None),
         Setup(TRUE,  FALSE, FALSE, "US", TRUE,  None, Some(ExistingBbl)),
         Setup(FALSE, TRUE,  FALSE, "EU", TRUE,  None, None),
         Setup(FALSE, TRUE,  FALSE, "EU", TRUE,  None, Some(ExistingBbl)),
         Setup(FALSE, FALSE, FALSE, "EU", FALSE, None, None)}

-----------------------------------------------------------------------------
(* Specification SpecMain: one run of getinspire_main.                     *)

InitMain ==
    /\ KeyIdle
    /\ python3 = FALSE
    /\ FetchIdle
    /\ doc \in DocsOf(MainItems, MaxMainItems)
    /\ text = Render(doc)
    /\ refs = None
    /\ cite_texkey = {}
    /\ cite_list = <<>>
    /\ cite_calls = 0
    /\ TeXIdle
    /\ mpc = "start"
    /\ \E u \in MainSetups :
           /\ thebibliography = (IF u.a THEN TRUE ELSE u.t)
           /\ appendbli = u.a
           /\ bbltoinspire = u.b
           /\ latexformat = u.f
           /\ latexfile = IF u.tex THEN Some(text) ELSE None
           /\ bib = u.bib
           /\ bbl = u.bbl
    /\ latex_writes = 0
    /\ main_s = <<>>
    /\ news = <<>>
    /\ bibfile = None
    /\ bibentry_texkey = <<>>
    /\ todo_keys = {}
    /\ todo_list = <<>>
    /\ known = {}
    /\ fetchlog = <<>>
    /\ exit_status = None

\* what inspirehtml(value, formath) adds to the log when the service answers
\* with the page p
Fetched(value, formath, p) ==
    [find |-> checkfind(value), value |-> value, of |-> formath,
     forbidden |-> p.forbidden,
     result |-> IF p.forbidden THEN <<>> ELSE inspirehtml(p.pres, formath)]

\* sys.exit(status)
Exit(status) ==
    /\ mpc' = "exit"
    /\ exit_status' = Some(status)

\* whether the LaTeX file is written:  if news != s
NeedsWrite(new, old) == new # old

\* getinspire_main, lines 476-513: the LaTeX file is looked up and read,
\* the bib file is named in BibTeX mode, and the keys are extracted
MainOpen ==
    /\ mpc = "start"
    /\ IF latexfile = None
       THEN /\ Exit(0)
            /\ UNCHANGED <<main_s, bibfile, cite_list, cite_texkey, cite_calls,
                           todo_keys>>
       ELSE /\ main_s' = latexfile[1]
            /\ IF ~thebibliography /\ MainBibfile(latexfile[1]) = <<>>
               THEN /\ Exit(0)
                    /\ UNCHANGED <<bibfile, cite_list, cite_texkey, cite_calls,
                                   todo_keys>>
               ELSE /\ bibfile' = IF thebibliography THEN None
                                  ELSE MainBibfile(latexfile[1])
                    /\ cite_list' = ExtractTexkeys(cite_list, latexfile[1])
                    /\ cite_texkey' = Range(cite_list')
                    /\ cite_calls' = cite_calls + 1
                    /\ todo_keys' = cite_texkey'
                    /\ mpc' = "resolve"
                    /\ UNCHANGED exit_status
    /\ UNCHANGED <<keyVars, fetchVars, texVars, doc, text, refs, thebibliography,
                   appendbli, bbltoinspire, latexformat, latexfile,
                   latex_writes, news, bib, bbl, bibentry_texkey, todo_list,
                   known, fetchlog>>

\* replace_eprint2texkeys, lines 284-288: one pass of the first loop
ResolveStep ==
    /\ mpc = "resolve"
    /\ \E i \in todo_keys :
           /\ todo_keys' = todo_keys \ {i}
           /\ IF checkfind(i) = "eprint"
              THEN \E p \in MainPages(i, "hx") :
                       /\ fetchlog' = Append(fetchlog, Fetched(i, "hx", p))
                       /\ IF p.forbidden
                          THEN Exit(1) /\ UNCHANGED bibentry_texkey
                          ELSE /\ bibentry_texkey' =
                                      RecordTexkey(bibentry_texkey,
                                                   inspirehtml(p.pres, "hx"))
                               /\ UNCHANGED <<mpc, exit_status>>
              ELSE UNCHANGED <<fetchlog, bibentry_texkey, mpc, exit_status>>
    /\ UNCHANGED <<keyVars, fetchVars, texVars, textVars, thebibliography, appendbli,
                   bbltoinspire, latexformat, latexfile, latex_writes, main_s,
                   news, bibfile, bib, bbl, todo_list, known>>

\* replace_eprint2texkeys, lines 290-293: the first loop is over
ResolveDone ==
    /\ mpc = "resolve"
    /\ todo_keys = {}
    /\ news' = main_s
    /\ todo_keys' = DOMAIN bibentry_texkey
    /\ mpc' = "replace"
    /\ UNCHANGED <<keyVars, fetchVars, texVars, textVars, thebibliography, appendbli,
                   bbltoinspire, latexformat, latexfile, latex_writes, main_s,
                   bibfile, bib, bbl, bibentry_texkey, todo_list, known,
                   fetchlog, exit_status>>

\* replace_eprint2texkeys, lines 293-296: one pass of the second loop
ReplaceStep ==
    /\ mpc = "replace"
    /\ \E i \in todo_keys :
           /\ todo_keys' = todo_keys \ {i}
           /\ news' = replaceeprint(i, bibentry_texkey[i], news)
    /\ UNCHANGED <<keyVars, fetchVars, texVars, textVars, mpc, thebibliography,
                   appendbli, bbltoinspire, latexformat, latexfile,
                   latex_writes, main_s, bibfile, bib, bbl, bibentry_texkey,
                   todo_list, known, fetchlog, exit_status>>

\* getinspire_main, lines 517-523: the LaTeX file is written when the text
\* has changed, and the keys of the new text are added
MainWrite ==
    /\ mpc = "replace"
    /\ todo_keys = {}
    /\ IF NeedsWrite(news, main_s)
       THEN /\ latexfile' = Some(news)
            /\ latex_writes' = latex_writes + 1
            /\ cite_list' = ExtractTexkeys(cite_list, news)
            /\ cite_texkey' = Range(cite_list')
            /\ cite_calls' = cite_calls + 1
       ELSE UNCHANGED <<latexfile, latex_writes, cite_list, cite_texkey,
                        cite_calls>>
    /\ mpc' = "written"
    /\ UNCHANGED <<keyVars, fetchVars, texVars, doc, text, refs, thebibliography,
                   appendbli, bbltoinspire, latexformat, main_s, news, bibfile,
                   bib, bbl, bibentry_texkey, todo_keys, todo_list, known,
                   fetchlog, exit_status>>

\* the bbl file after  f.write(bib); f.write('\n')  of a getLaTeX answer
WriteLaTeX(file, result) ==
    IF result # NotFound THEN Some(file[1] \o result \o <<"\n">>) ELSE file

\* get_bblfile_from_inspireLaTeX_records, lines 388-404: the bbl file is
\* written anew, with what it held kept when appending
GetBblStart ==
    /\ mpc = "written"
    /\ thebibliography
    /\ LET kept == IF bbl # None /\ appendbli THEN DropEndBib(bbl[1]) ELSE <<>>
       IN  /\ known' = Range(ExtractBibitemkeys(kept))
           /\ bbl' = Some(kept \o (IF ~appendbli THEN <<BeginBib, "\n", "\n">>
                                   ELSE <<>>))
    /\ todo_list' = cite_list
    /\ mpc' = "get_bbl"
    /\ UNCHANGED <<keyVars, fetchVars, texVars, textVars, thebibliography, appendbli,
                   bbltoinspire, latexformat, latexfile, latex_writes, main_s,
                   news, bibfile, bib, bibentry_texkey, todo_keys, fetchlog,
                   exit_status>>

\* get_bblfile_from_inspireLaTeX_records, lines 406-417: one pass of the loop
GetBblStep ==
    /\ mpc = "get_bbl"
    /\ todo_list # <<>>
    /\ todo_list' = Tail(todo_list)
    /\ IF appendbli /\ Head(todo_list) \in known
       THEN UNCHANGED <<bbl, fetchlog, mpc, exit_status>>
       ELSE \E p \in MainPages(Head(todo_list), formatdict(latexformat)) :
                LET f == Fetched(Head(todo_list), formatdict(latexformat), p)
                IN  /\ fetchlog' = Append(fetchlog, f)
                    /\ IF p.forbidden
                       THEN Exit(1) /\ UNCHANGED bbl
                       ELSE /\ bbl' = WriteLaTeX(bbl, f.result)
                            /\ UNCHANGED <<mpc, exit_status>>
    /\ UNCHANGED <<keyVars, fetchVars, texVars, textVars, thebibliography, appendbli,
                   bbltoinspire, latexformat, latexfile, latex_writes, main_s,
                   news, bibfile, bib, bibentry_texkey, todo_keys, known>>

\* get_bblfile_from_inspireLaTeX_records, lines 419-421, and the sys.exit()
\* of line 529
GetBblDone ==
    /\ mpc = "get_bbl"
    /\ todo_list = <<>>
    /\ bbl' = Some(bbl[1] \o <<EndBib, "\n">>)
    /\ Exit(0)
    /\ UNCHANGED <<keyVars, fetchVars, texVars, textVars, thebibliography, appendbli,
                   bbltoinspire, latexformat, latexfile, latex_writes, main_s,
                   news, bibfile, bib, bibentry_texkey, todo_keys, todo_list,
                   known, fetchlog>>

\* insert_BibTeXRecord_to_bib_file, lines 304-315: the bib file is made when
\* it is missing, and its keys are read
InsertStart ==
    /\ mpc = "written"
    /\ ~thebibliography
    /\ bib' = IF bib = None THEN Some(<<>>) ELSE bib
    /\ known' = ExtractBibkeys(bib'[1])
    /\ todo_keys' = cite_texkey
    /\ mpc' = "insert"
    /\ UNCHANGED <<keyVars, fetchVars, texVars, textVars, thebibliography, appendbli,
                   bbltoinspire, latexformat, latexfile, latex_writes, main_s,
                   news, bibfile, bbl, bibentry_texkey, todo_list, fetchlog,
                   exit_status>>

\* insert_BibTeXRecord_to_bib_file, lines 321-330: one pass of the loop
InsertStep ==
    /\ mpc = "insert"
    /\ \E i \in todo_keys :
           /\ todo_keys' = todo_keys \ {i}
           /\ IF checkfind(i) = "texkey" /\ i \notin known
              THEN \E p \in MainPages(i, "hx") :
                       LET f == Fetched(i, "hx", p)
                       IN  /\ fetchlog' = Append(fetchlog, f)
                           /\ IF p.forbidden
                              THEN Exit(1) /\ UNCHANGED bib
                              ELSE /\ bib' = IF f.result # NotFound
                                             THEN Some(bib[1] \o f.result)
                                             ELSE bib
                                   /\ UNCHANGED <<mpc, exit_status>>
              ELSE UNCHANGED <<bib, fetchlog, mpc, exit_status>>
    /\ UNCHANGED <<keyVars, fetchVars, texVars, textVars, thebibliography, appendbli,
                   bbltoinspire, latexformat, latexfile, latex_writes, main_s,
                   news, bibfile, bbl, bibentry_texkey, todo_list, known>>

\* insert_BibTeXRecord_to_bib_file is over, and
\* replace_bblfile_format_with_inspireLaTeX, lines 345-351, begins or, with
\* no bbl file or no -b, leaves the run to end
InsertDone ==
    /\ mpc = "insert"
    /\ todo_keys = {}
    /\ IF bbl # None /\ bbltoinspire
       THEN /\ todo_list' = ExtractBibitemkeys(bbl[1])
            /\ bbl' = Some(<<BeginBib, "\n", "\n">>)
            /\ mpc' = "replace_bbl"
            /\ UNCHANGED exit_status
       ELSE /\ Exit(0)
            /\ UNCHANGED <<todo_list, bbl>>
    /\ UNCHANGED <<keyVars, fetchVars, texVars, textVars, thebibliography, appendbli,
                   bbltoinspire, latexformat, latexfile, latex_writes, main_s,
                   news, bibfile, bib, bibentry_texkey, todo_keys, known,
                   fetchlog>>

\* replace_bblfile_format_with_inspireLaTeX, lines 352-361: one pass
ReplaceBblStep ==
    /\ mpc = "replace_bbl"
    /\ todo_list # <<>>
    /\ todo_list' = Tail(todo_list)
    /\ \E p \in MainPages(Head(todo_list), formatdict(latexformat)) :
           LET f == Fetched(Head(todo_list), formatdict(latexformat), p)
           IN  /\ fetchlog' = Append(fetchlog, f)
               /\ IF p.forbidden
                  THEN Exit(1) /\ UNCHANGED bbl
                  ELSE /\ bbl' = WriteLaTeX(bbl, f.result)
                       /\ UNCHANGED <<mpc, exit_status>>
    /\ UNCHANGED <<keyVars, fetchVars, texVars, textVars, thebibliography, appendbli,
                   bbltoinspire, latexformat, latexfile, latex_writes, main_s,
                   news, bibfile, bib, bibentry_texkey, todo_keys, known>>

\* replace_bblfile_format_with_inspireLaTeX, lines 363-373, and the end of
\* getinspire_main
ReplaceBblDone ==
    /\ mpc = "replace_bbl"
    /\ todo_list = <<>>
    /\ bbl' = Some(bbl[1] \o <<EndBib, "\n">>)
    /\ Exit(0)
    /\ UNCHANGED <<keyVars, fetchVars, texVars, textVars, thebibliography, appendbli,
                   bbltoinspire, latexformat, latexfile, latex_writes, main_s,
                   news, bibfile, bib, bibentry_texkey, todo_keys, todo_list,
                   known, fetchlog>>

NextMain ==
    \/ MainOpen
    \/ ResolveStep
    \/ ResolveDone
    \/ ReplaceStep
    \/ MainWrite
    \/ GetBblStart
    \/ GetBblStep
    \/ GetBblDone
    \/ InsertStart
    \/ InsertStep
    \/ InsertDone
    \/ ReplaceBblStep
    \/ ReplaceBblDone

SpecMain == InitMain /\ [][NextMain]_vars

-----------------------------------------------------------------------------
(* Specification SpecTeX: TeX(filename), then TeX.references() and         *)
(* TeX.bib_name() on the object, for files found or not found on disk.     *)

DotTex == <<".", "t", "e", "x">>
DotAux == <<".", "a", "u", "x">>

\* possible_paths = [filename, filename + '.tex']
possible_paths(f) == <<f, f \o DotTex>>

\* os.path.splitext(path)[0] for a path with no directory part
SplitextStem(path) ==
    LET dots == {i \in 2..Len(path) : path[i] = "."}
    IN  IF dots = {} THEN path ELSE SubSeq(path, 1, Max(dots) - 1)

\* TeX.aux_name()
aux_name(path) == SplitextStem(path) \o DotAux

PathP       == <<"p">>
PathPTex    == PathP \o DotTex
PathPTexTex == PathPTex \o DotTex
PathPAux    == PathP \o DotAux

\* what each LaTeX file holds when it is there: a different text in each
TexFileText(path) ==
    IF path = PathP THEN Render(<<Cite1(KA)>>)
    ELSE IF path = PathPTex THEN Render(<<BibDecl(<<BibA>>), Cite2(KB, KA)>>)
    ELSE Render(<<BibDecl(<<BibA, BibB>>), BibDecl(<<BibA>>)>>)

\* what the .aux file may hold
AuxTexts ==
    {BackslashBibdata \o BibA \o <<"}">>,
     BackslashBibdata \o BibA \o <<",">> \o BibB \o <<"}">>}

\* the disks: any of the three LaTeX files there or not, the .aux file
\* missing or with one of its texts
Disks ==
    {[path \in {PathP, PathPTex, PathPTexTex, PathPAux} |->
          IF path = PathPAux THEN aux
          ELSE IF path \in there THEN Some(TexFileText(path)) ELSE None] :
         there \in SUBSET {PathP, PathPTex, PathPTexTex},
         aux \in {None} \cup {Some(a) : a \in AuxTexts}}

\* open(path).read(): None stands for IOError
Open(d, path) == IF path \in DOMAIN d THEN d[path] ELSE None

InitTeX ==
    /\ KeyIdle
    /\ python3 = FALSE
    /\ FetchIdle
    /\ TextIdle
    /\ MainIdle
    /\ filename \in {PathP, PathPTex}
    /\ disk \in Disks
    /\ tpc = "new"
    /\ tex_errors = <<>>
    /\ tex_filename = None
    /\ tex_bib_name = None

\* the paths of the list ps up to the first that opens, that one left out:
\* the errors list after the loop of TeX.__init__
RECURSIVE FailedBeforeOpen(_, _)
FailedBeforeOpen(d, ps) ==
    IF ps = <<>> \/ Open(d, Head(ps)) # None THEN <<>>
    ELSE <<Head(ps)>> \o FailedBeforeOpen(d, Tail(ps))

\* TeX.__init__(filename)
TeXInit ==
    /\ tpc = "new"
    /\ LET ps     == possible_paths(filename)
           failed == FailedBeforeOpen(disk, ps)
       IN  /\ tex_errors' = failed
           /\ IF Len(failed) < Len(ps)
              THEN /\ text' = Open(disk, ps[Len(failed) + 1])[1]
                   /\ tex_filename' = Some(ps[Len(failed) + 1])
              ELSE UNCHANGED <<text, tex_filename>>
           /\ tpc' = IF failed # <<>> THEN "raised" ELSE "loaded"
    /\ UNCHANGED <<keyVars, fetchVars, mainVars, doc, refs, cite_texkey,
                   cite_list, cite_calls, filename, disk, tex_bib_name>>

\* TeX.references() on the object
TeXReferences ==
    /\ tpc = "loaded"
    /\ refs = None
    /\ refs' = Some(references(text))
    /\ UNCHANGED <<keyVars, fetchVars, mainVars, texVars, doc, text,
                   cite_texkey, cite_list, cite_calls>>

\* TeX.bib_name() on the object, with get_aux() reading the .aux file
TeXBibName ==
    /\ tpc = "loaded"
    /\ tex_bib_name = None
    /\ tex_bib_name' = Some(bib_name(text, Open(disk, aux_name(tex_filename[1]))))
    /\ UNCHANGED <<keyVars, fetchVars, mainVars, textVars, filename, disk, tpc,
                   tex_errors, tex_filename>>

NextTeX == TeXInit \/ TeXReferences \/ TeXBibName

SpecTeX == InitTeX /\ [][NextTeX]_vars

-----------------------------------------------------------------------------
(* Properties of Key (SpecKey).                                            *)

ExactlyOne(a, b, c) ==
    \/ a /\ ~b /\ ~c
    \/ ~a /\ b /\ ~c
    \/ ~a /\ ~b /\ c

\* the type the claim assigns: canonical when the canonical pattern
\* matches, else alternate when the alternate pattern matches, else
\* unrecognized
ExpectedType(k) ==
    IF INSPIRE_REGEX(k) THEN INSPIRE
    ELSE IF ARXIV_REGEX(k) THEN ARXIV
    ELSE UNKNOWN

\* C1: key classification is total and mutually exclusive: exactly one of
\* is_inspire, is_arxiv, is_unknown holds of every key, no key matches both
\* the canonical and the alternate pattern, Key.format returns the canonical
\* type whenever the canonical pattern matches, and "Deshpande:1977rw" is
\* canonical, "hep-ph/0603188" and "1207.7214" are alternate, "random text"
\* is unrecognized.
C1_KeyClassification ==
    /\ ExactlyOne(is_inspire(key), is_arxiv(key), is_unknown(key))
    /\ ~(INSPIRE_REGEX(key) /\ ARXIV_REGEX(key))
    /\ (kres # None /\ kres[1].op = "format") =>
           /\ kres[1].val[2] = ExpectedType(key)
           /\ key = Deshpande1977rw => kres[1].val[2] = INSPIRE
           /\ key \in {HepPh0603188, K12077214} => kres[1].val[2] = ARXIV
           /\ key = RandomText => kres[1].val[2] = UNKNOWN
    /\ (kres # None /\ kres[1].op = "is_inspire") =>
           kres[1].val = (ExpectedType(key) = INSPIRE)
    /\ (kres # None /\ kres[1].op = "is_arxiv") =>
           kres[1].val = (ExpectedType(key) = ARXIV)
    /\ (kres # None /\ kres[1].op = "is_unknown") =>
           kres[1].val = (ExpectedType(key) = UNKNOWN)

\* an alternate-form key written with its scheme tag has been classified
C1_Witness ==
    /\ kres # None
    /\ kres[1].op = "format"
    /\ key = <<"a", "r", "X", "i", "v", ":", "1", "2", "0", "7", ".",
               "7", "2", "1", "4", "5">>
    /\ kres[1].val = <<<<"1", "2", "0", "7", ".", "7", "2", "1", "4", "5">>, ARXIV>>

-----------------------------------------------------------------------------
(* Properties of Inspire.fetch (SpecFetch).                                *)

FetchOutcomes == {"SkipUnknownQuery", "RecordNotFound", "MultipleRecordsFound",
                  "return"}

-----------------------------------------------------------------------------
(* Properties of the extractors (SpecExtract).                             *)

\* C5: extraction is comment-aware: a key named only by invocations that lie
\* after an unescaped % on their line is not in the extracted table, and the
\* keys of the invocations outside comments (an escaped \% starts none) are.
C5_CommentAware ==
    /\ refs # None =>
           /\ Range(refs[1]) \cap CommentedOnlyKeys(doc, FALSE) = {}
           /\ UncommentedKeys(doc, FALSE) \subseteq Range(refs[1])
    /\ cite_calls > 0 =>
           /\ Range(cite_list) \cap CommentedOnlyKeys(doc, TRUE) = {}
           /\ UncommentedKeys(doc, TRUE) \subseteq Range(cite_list)

NoDuplicates(table) ==
    \A i, j \in 1..Len(table) : i # j => table[i] # table[j]

-----------------------------------------------------------------------------
(* Properties of the run of getinspire_main (SpecMain).                    *)

\* the eprints that the run has resolved to another key
Resolved == {K \in DOMAIN bibentry_texkey : bibentry_texkey[K] # K}

\* the keys that the citation invocations of a text name
CitedKeys(s) == Range(references(s))

\* C3: once the rewrite step of a run is over, no key that the run resolved to
\* another key is named by a citation invocation of the LaTeX file any more:
\* every occurrence has been replaced, also several in one invocation.
C3_ReplaceEverywhere ==
    (mpc = "written" /\ latexfile # None) =>
        \A K \in Resolved : K \notin CitedKeys(latexfile[1])

\* \cite{k1,k2,...}
PlainCite(ks) ==
    BackslashCiteBrace \o Head(ks)
        \o Concat([i \in 1..(Len(ks) - 1) |-> <<",">> \o ks[i + 1]]) \o <<"}">>

\* the texts an item may have after the rewrite: each whole key that was
\* resolved is either replaced by its texkey or left, nothing else changes
ItemRewrites(it) ==
    IF it.kind = "cite" /\ it.plain
    THEN {PlainCite(ks) :
              ks \in {k2 \in [1..Len(it.keys) -> Range(it.keys) \cup
                                   {bibentry_texkey[K] : K \in Resolved}] :
                         \A i \in 1..Len(it.keys) :
                             \/ k2[i] = it.keys[i]
                             \/ /\ it.keys[i] \in Resolved
                                /\ k2[i] = bibentry_texkey[it.keys[i]]}}
    ELSE {it.t}

RECURSIVE DocRewrites(_)
DocRewrites(d) ==
    IF d = <<>> THEN {<<>>}
    ELSE {a \o b : a \in ItemRewrites(Head(d)), b \in DocRewrites(Tail(d))}

\* C4: once the rewrite step of a run is over, the LaTeX file differs from
\* the file the run read only where a whole key that was resolved stood in a
\* citation invocation: every other key and every other character is as
\* before.
C4_NoDrift ==
    (mpc = "written" /\ latexfile # None) =>
        latexfile[1] \in DocRewrites(doc)

\* C7: in every mode, no query goes to the service for a cited key that is
\* neither an eprint nor a texkey.
C7_NoFetchForUnrecognized ==
    \A n \in 1..Len(fetchlog) : fetchlog[n].find # "other"

\* the text c begins with a record of a recognisable key:  @type{key,  in
\* BibTeX format,  \bibitem{key}  in LaTeX format
LeadsRecord(c, formath) ==
    /\ c # <<>>
    /\ IF formath = "hx"
       THEN c[1] = AtType /\ TexkeyUpTo(c, 2, ",") # 0
       ELSE c[1] = Bibitem /\ TexkeyUpTo(c, 2, "}") # 0

\* the answer to a query held content that is no record
Malformed(e) ==
    /\ ~e.forbidden
    /\ e.result # NotFound
    /\ ~LeadsRecord(e.result, e.of)

\* the text c stands in the file f
StandsIn(c, f) ==
    /\ f # None
    /\ \E i \in 1..Len(f[1]) : LitAt(f[1], i, c)

\* C8: when the content fetched for a key does not begin with the record
\* pattern of its format, the content is written neither to the bib file nor
\* to the bbl file, and the run does not end with status 0.
C8_ContentShapeFatal ==
    \A n \in 1..Len(fetchlog) :
        Malformed(fetchlog[n]) =>
            /\ ~StandsIn(fetchlog[n].result, bib)
            /\ ~StandsIn(fetchlog[n].result, bbl)
            /\ exit_status # Some(0)

\* the positions of the run at which the resolution of the keys is over
AfterResolution == {"replace", "written", "get_bbl", "insert", "replace_bbl"}

\* the LaTeX file is written at most once, never before the last resolution
\* fetch, never when no key was resolved to another key, and what is not
\* written stays as it was
WrittenOnceAfterResolution ==
    /\ latex_writes <= 1
    /\ latex_writes = 1 => (mpc \in AfterResolution \cup {"exit"} /\ latexfile = Some(news))
    /\ latex_writes = 0 => latexfile \in {None, Some(text)}
    /\ (mpc \in AfterResolution \ {"replace"} /\ Resolved = {}) => latex_writes = 0

\* C9: in one run the LaTeX file is written at most once and only after the
\* last resolution fetch, what is written holds the replacement of every
\* occurrence of every resolved key, and a run that resolves no key to
\* another key, or ends before the rewrite step, leaves the file unwritten.
C9_AllOrNothingRewrite ==
    /\ WrittenOnceAfterResolution
    /\ latex_writes = 1 =>
           \A K \in Resolved : K \notin CitedKeys(latexfile[1])

\* the bib and bbl files as a run may find them
FoundBibs == {u.bib : u \in MainSetups}
FoundBbls == {u.bbl : u \in MainSetups}

\* the bibliography files that the declarations of a document name, the
\* declarations in comments left out
DeclaredBibs(d) ==
    UNION {Range(d[i].keys) : i \in {j \in 1..Len(d) :
                                        /\ d[j].kind = "bibliography"
                                        /\ ~Commented(d, j)}}

\* C10: when the LaTeX file of a run in BibTeX mode names more than one
\* distinct bibliography file, in one declaration or in several, the run
\* makes no query, writes no file and does not end with status 0.
C10_MultipleBibAbort ==
    (mpc # "start" /\ latexfile # None /\ ~thebibliography
        /\ Cardinality(DeclaredBibs(doc)) > 1) =>
        /\ fetchlog = <<>>
        /\ latex_writes = 0
        /\ bib \in FoundBibs
        /\ bbl \in FoundBbls
        /\ exit_status # Some(0)

\* the run has met a condition it cannot recover from: the LaTeX file is
\* missing, the file of a BibTeX-mode run names no bibliography file or more
\* than one, or an answer of the service held content that is no record
Unrecoverable ==
    \/ latexfile = None
    \/ ~thebibliography /\ Cardinality(DeclaredBibs(doc)) # 1
    \/ \E n \in 1..Len(fetchlog) : Malformed(fetchlog[n])

\* C12: a run that has met an unrecoverable condition (LaTeX file missing,
\* no bibliography file or several named, content that is no record) does not
\* end with exit status 0.
C12_NonZeroExit ==
    Unrecoverable => exit_status # Some(0)

\* C14: once the LaTeX file has been rewritten and scanned again, the key
\* table that the later steps of the run go through (Cite.texkey, Cite.list)
\* holds exactly the keys that the invocations of the rewritten file name.
C14_TableAfterRescan ==
    (latex_writes = 1 /\ mpc \in AfterResolution \ {"replace"}) =>
        /\ cite_texkey = CitedKeys(latexfile[1])
        /\ Range(cite_list) = CitedKeys(latexfile[1])

\* the places of the symbol x in the text f
PlacesOf(f, x) == {i \in 1..Len(f) : f[i] = x}

\* C16: after a run of thebibliography mode that went through, with -a or
\* without, the bbl file found or not, the bbl file holds one
\* \begin{thebibliography} line and one \end{thebibliography} line, the first
\* before and the second after every record; with -a no key that had a
\* \bibitem in the file found is queried again.
C16_BblWellFormed ==
    (thebibliography /\ latexfile # None /\ exit_status = Some(0)) =>
        /\ bbl # None
        /\ PlacesOf(bbl[1], BeginBib) = {1}
        /\ PlacesOf(bbl[1], EndBib) = {Len(bbl[1]) - 1}
        /\ appendbli =>
               \A n \in 1..Len(fetchlog) :
                   fetchlog[n].of = "hx" \/ fetchlog[n].value \notin known

-----------------------------------------------------------------------------
(* Properties of TeX.__init__ (SpecTeX).                                   *)

\* the paths of TeX(filename) that can be opened
Openable == {i \in 1..2 : Open(disk, possible_paths(filename)[i]) # None}

\* C11: TeX(filename) succeeds whenever filename or filename + '.tex' can be
\* opened, with the first of them that opens loaded, and the file-not-found
\* error is raised only when neither can be opened.
C11_PathWithOrWithoutExtension ==
    tpc # "new" =>
        /\ Openable # {} =>
               /\ tpc = "loaded"
               /\ tex_filename = Some(possible_paths(filename)[Min(Openable)])
               /\ text = Open(disk, possible_paths(filename)[Min(Openable)])[1]
        /\ tpc = "raised" => Openable = {}

-----------------------------------------------------------------------------
(* Properties of the extractors on \cite{} (SpecExtractEmpty).             *)

\* the document with every \cite{} taken out
WithoutEmptyCites(d) == SelectSeq(d, LAMBDA it : it # EmptyCite)

\* C13: \cite{} adds nothing to the key table: the table of a document is the
\* table of the document without its \cite{} invocations, and the empty
\* string is no key of it.
C13_EmptyCiteNoOp ==
    /\ refs # None =>
           /\ refs[1] = references(Render(WithoutEmptyCites(doc)))
           /\ <<>> \notin Range(refs[1])
    /\ cite_calls > 0 =>
           /\ cite_list = ExtractTexkeys(<<>>, Render(WithoutEmptyCites(doc)))
           /\ <<>> \notin Range(cite_list)

-----------------------------------------------------------------------------
(* Properties of InspireHTMLParser (SpecParser).                           *)

\* the <div> elements open after the events: TRUE for a pagebody div
RECURSIVE OpenDivs(_)
OpenDivs(evs) ==
    IF evs = <<>> THEN <<>>
    ELSE LET before == OpenDivs(SubSeq(evs, 1, Len(evs) - 1))
             e      == evs[Len(evs)]
         IN  IF e.tag = "div" /\ e.ev = "start"
             THEN Append(before, e = PagebodyDiv)
             ELSE IF e.tag = "div" /\ e.ev = "end" /\ before # <<>>
             THEN SubSeq(before, 1, Len(before) - 1)
             ELSE before

\* the text of the <pre> element open after the events, when it was opened
\* inside a pagebody div: None, or its runs of text, a line end after each
RECURSIVE OpenPre(_)
OpenPre(evs) ==
    IF evs = <<>> THEN None
    ELSE LET front == SubSeq(evs, 1, Len(evs) - 1)
             e     == evs[Len(evs)]
         IN  IF e.tag = "pre" /\ e.ev = "start"
             THEN (IF TRUE \in Range(OpenDivs(front)) THEN Some(<<>>) ELSE None)
             ELSE IF e.tag = "pre" /\ e.ev = "end" THEN None
             ELSE IF e.ev = "data" /\ OpenPre(front) # None
             THEN Some(OpenPre(front)[1] \o e.data \o <<"\n">>)
             ELSE OpenPre(front)

\* the texts of the closed <pre> elements that were opened inside a pagebody
\* div, in the order of the document
RECURSIVE ClosedPres(_)
ClosedPres(evs) ==
    IF evs = <<>> THEN <<>>
    ELSE LET front == SubSeq(evs, 1, Len(evs) - 1)
             e     == evs[Len(evs)]
         IN  IF e.tag = "pre" /\ e.ev = "end" /\ OpenPre(front) # None
             THEN Append(ClosedPres(front), OpenPre(front)[1])
             ELSE ClosedPres(front)

\* C15: whatever start tags, end tags and text the parser is fed, it does not
\* fail, div_depth is not negative, div_pagebody is unset or between 1 and
\* div_depth, and at the end of the feed pre_list holds exactly the texts of
\* the closed <pre> elements opened inside a pagebody div, in order.
C15_ParserCollectsPagebodyPres ==
    /\ outcome # Some([kind |-> "TypeError", value |-> <<>>])
    /\ div_depth >= 0
    /\ div_pagebody # None => div_pagebody[1] \in 1..div_depth
    /\ (fpc = "parsing" /\ page = <<>>) => pre_list = ClosedPres(response)

\* the same for Python 2 alone, where the comparison with None does not raise
ParserCollectsUnderPython2 ==
    ~python3 => C15_ParserCollectsPagebodyPres

====
